---- MODULE Spec2Model ----
(***************************************************************************)
(* Model of horovod/common/ops/collective_operations.cc: the staging       *)
(* helpers of AllreduceOp, AllgatherOp::Execute, BroadcastOp::Execute and  *)
(* ErrorOp::Execute.                                                       *)
(*                                                                         *)
(* Arrays are functions over 0-based index ranges, as in the source.       *)
(* All quantities stay far below 2^31, so the int / unsigned int / int64_t *)
(* mix of the source (recvcounts, displcmnts, rank_displacement, offsets)  *)
(* is modelled by unbounded integers; nothing here speaks about overflow.  *)
(***************************************************************************)
EXTENDS Integers, Sequences, FiniteSets, TLC

\* ---------------------------------------------------------------- bounds
MaxSize == 3            \* largest group size (global_state_->size)
MaxGatherEntries == 2   \* largest Allgather batch
MaxCells == 6           \* largest tensor_sizes table (entries * size)
MaxFusedEntries == 3    \* largest Allreduce batch
MaxCount == 2           \* largest Broadcast element count

ExtentValues == {0, 2, 5}               \* first-dimension sizes a rank may report
SliceShapes == {<<>>, <<4>>, <<2, 3>>}  \* shapes of one slice (dims 1..)
ElementCounts == {0, 5, 10, 20}         \* element counts of fused tensors
DTypes == {"HOROVOD_UINT8", "HOROVOD_FLOAT32"}
ErrorMessages ==
  {"Mismatched allreduce tensor shapes", "Mismatched data types", "Mismatched root ranks"}
AllocFailures ==
  { [type |-> "UNKNOWN_ERROR", reason |-> "OOM when allocating tensor"],
    [type |-> "ABORTED", reason |-> "context shut down"] }
TransportFailures == {"MPI_Bcast failed, see MPI output for details."}

VARIABLES
  op,            \* which operation the engine runs: the negotiated response type
  pc,            \* position of the single-process operation
  global_state,  \* [rank, size]
  entries,       \* the batch: 0-based function of TensorTableEntry
  response,      \* [tensor_sizes, error_message]
  status,        \* Status returned by Execute (type "NONE" while running)
  timeline,      \* calls made on global_state_->timeline, in order
  allocLog,      \* calls of context->AllocateOutput with their results, in order
  calls,         \* calls of the transport primitives, in order
  ec,            \* loop index of the allocation loop of AllgatherOp::Execute
  recvcounts, displcmnts, entry_component_sizes, entry_component_offsets,
  fusion_buffer, \* contents of the fusion buffer, indexed by byte offset
  buffer_len,    \* out-parameter of MemcpyInFusionBuffer
  num_elements,  \* result of NumElements
  copiesIn,      \* calls of MemcpyEntryInFusionBuffer: [entry, offset, len]
  copiesOut,     \* calls of MemcpyEntryOutFusionBuffer: [entry, offset, len]
  procs,         \* Broadcast: per-rank process [pc, e, data_ptr, calls, result, status]
  sent           \* Broadcast: the root's input when the root entered the call

vars == << op, pc, global_state, entries, response, status, timeline, allocLog,
           calls, ec, recvcounts, displcmnts, entry_component_sizes,
           entry_component_offsets, fusion_buffer, buffer_len, num_elements,
           copiesIn, copiesOut, procs, sent >>

\* ------------------------------------------------- collaborators' types
\* Status (common.h): OK() and the typed failures.
StatusOK == [type |-> "OK", reason |-> ""]
PreconditionError(message) == [type |-> "PRECONDITION_ERROR", reason |-> message]
NoStatus == [type |-> "NONE", reason |-> ""]
ok(s) == s.type = "OK"

\* TensorShape::num_elements(): the product of the dimensions (1 for no dims).
RECURSIVE num_elements_of(_)
num_elements_of(shape) ==
  IF Len(shape) = 0 THEN 1 ELSE Head(shape) * num_elements_of(Tail(shape))

\* GetElementSize(dtype): bytes of one element.
GetElementSize(dtype) == IF dtype = "HOROVOD_UINT8" THEN 1 ELSE 4

\* Tensor::size(): bytes of the tensor.
TensorSize(t) == num_elements_of(t.shape) * GetElementSize(t.dtype)

NoOutput == [allocated |-> FALSE, shape |-> <<>>, data |-> <<>>]

Range0(n) == 0 .. (n - 1)
Zeros(n) == [i \in Range0(n) |-> 0]

\* State a process-local variable has when the running operation does not use it.
Idle ==
  /\ timeline = <<>> /\ allocLog = <<>> /\ calls = <<>> /\ ec = 0
  /\ recvcounts = <<>> /\ displcmnts = <<>>
  /\ entry_component_sizes = <<>> /\ entry_component_offsets = <<>>
  /\ fusion_buffer = <<>> /\ buffer_len = 0 /\ num_elements = 0
  /\ copiesIn = <<>> /\ copiesOut = <<>>
  /\ procs = <<>> /\ sent = <<>>
  /\ status = NoStatus

\* ------------------------------------------------------------ Allgather
GatherInit ==
  /\ op = "ALLGATHER" /\ pc = "start"
  /\ \E G \in 1 .. MaxSize, E \in 1 .. MaxGatherEntries :
       /\ E * G <= MaxCells
       /\ \E rank \in Range0(G) : global_state = [rank |-> rank, size |-> G]
       /\ \E ts \in [Range0(E * G) -> ExtentValues] :
            response = [tensor_sizes |-> ts, error_message |-> ""]
       /\ \E slices \in [Range0(E) -> SliceShapes], dtype \in {"HOROVOD_FLOAT32"} :
            entries = [i \in Range0(E) |->
              [ tensor |-> [ shape |-> << response.tensor_sizes[i * G + global_state.rank] >>
                                        \o slices[i],
                             dtype |-> dtype, data |-> <<>> ],
                output |-> NoOutput,
                root_rank |-> 0 ]]
  /\ Idle

\* lines 106-109: the shape without its first dimension
SingleSliceShape(shape) == SubSeq(shape, 2, Len(shape))

\* fault: the table is indexed without the row stride
ComponentSize_Unscaled(tensor_sizes, size, i, rc) == tensor_sizes[i + rc]

\* line 116: the extent entry i gets from rank rc
ComponentSize(tensor_sizes, size, i, rc) == tensor_sizes[i * size + rc]

\* lines 113-117: the sum of the extents of entry i over the ranks
RECURSIVE TotalEntryDimensionSize(_, _, _, _)
TotalEntryDimensionSize(tensor_sizes, size, i, rc) ==
  IF rc = 0 THEN 0
  ELSE TotalEntryDimensionSize(tensor_sizes, size, i, rc - 1)
         + ComponentSize(tensor_sizes, size, i, rc - 1)

\* lines 125-127
OutputShape(tensor_sizes, size, i, slice) ==
  << TotalEntryDimensionSize(tensor_sizes, size, i, size) >> \o slice

\* lines 119-120
EntryComponentSizes(tensor_sizes, size, i, slice) ==
  [rc \in Range0(size) |-> ComponentSize(tensor_sizes, size, i, rc) * num_elements_of(slice)]

\* fault: extents are added without the slice element count
AddRecvcounts_Extents(rcv, tensor_sizes, size, i, slice) ==
  [rc \in Range0(size) |-> rcv[rc] + ComponentSize(tensor_sizes, size, i, rc)]

\* line 118
AddRecvcounts(rcv, tensor_sizes, size, i, slice) ==
  [rc \in Range0(size) |->
     rcv[rc] + ComponentSize(tensor_sizes, size, i, rc) * num_elements_of(slice)]

\* lines 136-142
Displacements(rcv, size) ==
  LET d[rc \in Range0(size)] == IF rc = 0 THEN 0 ELSE d[rc - 1] + rcv[rc - 1]
  IN d

\* lines 144, 155: rank_displacement when the outer loop reaches rank rc
RECURSIVE RankDisplacement(_, _)
RankDisplacement(rcv, rc) ==
  IF rc = 0 THEN 0 ELSE RankDisplacement(rcv, rc - 1) + rcv[rc - 1]

\* fault: the entry's own size is added instead of the previous entry's
ComponentOffsets_OwnSize(rcv, sizes, size, n) ==
  LET off[i \in Range0(n)] ==
        [rc \in Range0(size) |->
           IF i = 0 THEN RankDisplacement(rcv, rc)
           ELSE off[i - 1][rc] + sizes[i][rc]]
  IN off

\* lines 145-156
ComponentOffsets(rcv, sizes, size, n) ==
  LET off[i \in Range0(n)] ==
        [rc \in Range0(size) |->
           IF i = 0 THEN RankDisplacement(rcv, rc)
           ELSE off[i - 1][rc] + sizes[i - 1][rc]]
  IN off

\* lines 80-100
GatherBegin ==
  /\ op = "ALLGATHER" /\ pc = "start"
  /\ recvcounts' = Zeros(global_state.size)
  /\ displcmnts' = Zeros(global_state.size)
  /\ entry_component_sizes' =
       [i \in DOMAIN entries |-> Zeros(global_state.size)]
  /\ entry_component_offsets' =
       [i \in DOMAIN entries |-> Zeros(global_state.size)]
  /\ timeline' = Append(timeline, [call |-> "ActivityStartAll", activity |-> "ALLOCATE_OUTPUT"])
  /\ ec' = 0
  /\ pc' = "allocate"
  /\ UNCHANGED << op, global_state, entries, response, status, allocLog, calls,
                  fusion_buffer, buffer_len, num_elements, copiesIn, copiesOut,
                  procs, sent >>

\* fault: the loop goes on to the next entry after a failed allocation
ReturnOnFailure_Continue(st) ==
  /\ ec' = ec + 1
  /\ UNCHANGED << status, pc, entries >>

\* lines 130-132: a failed allocation ends Execute with that Status
ReturnOnFailure(st) ==
  /\ status' = st
  /\ pc' = "returned"
  /\ UNCHANGED << entries, ec >>

\* lines 101-133: one iteration of the allocation loop; AllocateOutput either
\* succeeds and sets e.output, or fails and leaves it alone.
GatherAllocateOutput ==
  /\ op = "ALLGATHER" /\ pc = "allocate"
  /\ ec < Cardinality(DOMAIN entries)
  /\ LET size == global_state.size
         slice == SingleSliceShape(entries[ec].tensor.shape)
         output_shape == OutputShape(response.tensor_sizes, size, ec, slice)
     IN /\ recvcounts' = AddRecvcounts(recvcounts, response.tensor_sizes, size, ec, slice)
        /\ entry_component_sizes' =
             [entry_component_sizes EXCEPT
                ![ec] = EntryComponentSizes(response.tensor_sizes, size, ec, slice)]
        /\ \E st \in {StatusOK} \cup AllocFailures :
             /\ allocLog' = Append(allocLog, [entry |-> ec, shape |-> output_shape, result |-> st])
             /\ IF ok(st)
                THEN /\ entries' = [entries EXCEPT
                          ![ec].output = [allocated |-> TRUE, shape |-> output_shape, data |-> <<>>]]
                     /\ ec' = ec + 1
                     /\ UNCHANGED << status, pc >>
                ELSE ReturnOnFailure(st)
  /\ UNCHANGED << op, global_state, response, timeline, calls, displcmnts,
                  entry_component_offsets, fusion_buffer, buffer_len, num_elements,
                  copiesIn, copiesOut, procs, sent >>

\* lines 134-166
GatherFinish ==
  /\ op = "ALLGATHER" /\ pc = "allocate"
  /\ ec = Cardinality(DOMAIN entries)
  /\ LET size == global_state.size
         d == Displacements(recvcounts, size)
         off == ComponentOffsets(recvcounts, entry_component_sizes, size, ec)
     IN /\ timeline' = Append(timeline, [call |-> "ActivityEndAll", activity |-> ""])
        /\ displcmnts' = d
        /\ entry_component_offsets' = off
        /\ calls' = Append(calls,
             [ primitive |-> "DoAllgather",
               recvcounts |-> recvcounts,
               displcmnts |-> d,
               entry_component_offsets |-> off,
               entry_component_sizes |-> entry_component_sizes,
               total_size |-> d[size - 1] + recvcounts[size - 1],
               element_size |-> GetElementSize(entries[0].tensor.dtype) ])
  /\ status' = StatusOK
  /\ pc' = "returned"
  /\ UNCHANGED << op, global_state, entries, response, allocLog, ec, recvcounts,
                  entry_component_sizes, fusion_buffer, buffer_len, num_elements,
                  copiesIn, copiesOut, procs, sent >>

GatherNext == GatherBegin \/ GatherAllocateOutput \/ GatherFinish

SpecGather == GatherInit /\ [][GatherNext]_vars

\* ------------------------------------------------ Allgather: properties
RECURSIVE SumOver(_)
\* the sum of the values of a function with a finite domain
SumOver(f) ==
  IF DOMAIN f = {} THEN 0
  ELSE LET x == CHOOSE y \in DOMAIN f : TRUE
       IN f[x] + SumOver([y \in DOMAIN f \ {x} |-> f[y]])

GatherCalls == { i \in 1 .. Len(calls) : calls[i].primitive = "DoAllgather" }
NumEntries == Cardinality(DOMAIN entries)
\* what the negotiated response says about entry i at rank r
Extent(i, r) == response.tensor_sizes[i * global_state.size + r]
SliceElements(i) == num_elements_of(Tail(entries[i].tensor.shape))
Component(i, r) == Extent(i, r) * SliceElements(i)
Ranks == Range0(global_state.size)
Cells == Range0(NumEntries) \X Ranks

\* C1: when AllocateOutput fails for an entry, Execute has returned exactly that
\* Status and DoAllgather has not been and will not be called.
C1_AllocFailureAborts ==
  op = "ALLGATHER" =>
    \A k \in 1 .. Len(allocLog) :
      ~ok(allocLog[k].result) =>
        /\ pc = "returned"
        /\ status = allocLog[k].result
        /\ GatherCalls = {}
        /\ k = Len(allocLog)

C1_Witness ==
  /\ op = "ALLGATHER" /\ pc = "returned"
  /\ Len(allocLog) = 2
  /\ allocLog[2].entry = 1
  /\ allocLog[2].result = [type |-> "ABORTED", reason |-> "context shut down"]
  /\ status = allocLog[2].result

\* C5 (as claimed): when Execute returns a failure, every entry's output is as it
\* was before the call, that is, not allocated.
C5_NoPartialOutput ==
  (op = "ALLGATHER" /\ pc = "returned" /\ ~ok(status)) =>
    \A i \in DOMAIN entries : entries[i].output = NoOutput

\* C10 (as claimed): when Execute has returned, every ActivityStartAll on the
\* timeline has been followed by an ActivityEndAll.
C10_ActivityBracketed ==
  (op = "ALLGATHER" /\ pc = "returned") =>
    \A k \in 1 .. Len(timeline) :
      timeline[k].call = "ActivityStartAll" =>
        \E j \in (k + 1) .. Len(timeline) : timeline[j].call = "ActivityEndAll"

\* C6: the receive counts handed to the transport are the per-rank sums of the
\* component sizes, the displacements are their running sums starting at 0, and
\* the total buffer length is the sum of all component sizes.
C6_RecvcountsAndDisplacements ==
  \A c \in GatherCalls :
    LET rcv == calls[c].recvcounts
        dsp == calls[c].displcmnts
        G == global_state.size
    IN /\ DOMAIN rcv = Ranks /\ DOMAIN dsp = Ranks
       /\ \A r \in Ranks :
            rcv[r] = SumOver([i \in Range0(NumEntries) |-> Component(i, r)])
       /\ dsp[0] = 0
       /\ \A r \in Ranks \ {0} : dsp[r] = dsp[r - 1] + rcv[r - 1]
       /\ calls[c].total_size = dsp[G - 1] + rcv[G - 1]
       /\ calls[c].total_size = SumOver([x \in Cells |-> Component(x[1], x[2])])
       /\ SumOver(rcv) = calls[c].total_size

C6_Witness ==
  /\ GatherCalls # {}
  /\ global_state.size = 3 /\ NumEntries = 2
  /\ Extent(0, 1) = 0 /\ Extent(1, 1) = 0 /\ Extent(1, 0) = 5 /\ Extent(0, 2) = 2
  /\ SliceElements(0) = 6 /\ SliceElements(1) = 4
  /\ calls[1].total_size > 20

\* C7: the offset table tiles [0, total) by rank and, within a rank, by entry.
C7_OffsetsTile ==
  \A c \in GatherCalls :
    LET off == calls[c].entry_component_offsets
        dsp == calls[c].displcmnts
        total == calls[c].total_size
        \* the components that come before (i, r) in rank-major order
        Before(i, r) == { x \in Cells : x[2] < r \/ (x[2] = r /\ x[1] < i) }
        Holds(x, p) == off[x[1]][x[2]] <= p /\ p < off[x[1]][x[2]] + Component(x[1], x[2])
    IN /\ \A r \in Ranks : off[0][r] = dsp[r]
       /\ \A i \in Range0(NumEntries) \ {0}, r \in Ranks :
            off[i][r] = off[i - 1][r] + Component(i - 1, r)
       /\ \A x \in Cells :
            /\ 0 <= off[x[1]][x[2]]
            /\ off[x[1]][x[2]] + Component(x[1], x[2]) <= total
            \* zero-size components add nothing to any offset
            /\ off[x[1]][x[2]] =
                 SumOver([y \in { z \in Before(x[1], x[2]) : Component(z[1], z[2]) > 0 }
                            |-> Component(y[1], y[2])])
       \* every position of the buffer lies in exactly one component
       /\ \A p \in Range0(total) :
            Cardinality({ x \in Cells : Holds(x, p) }) = 1

C7_Witness ==
  /\ GatherCalls # {}
  /\ global_state.size = 3 /\ NumEntries = 2
  /\ Component(0, 0) = 8 /\ Component(1, 0) = 0 /\ Component(0, 1) = 0
  /\ Component(1, 1) = 12 /\ Component(0, 2) = 20 /\ Component(1, 2) = 30
  /\ calls[1].entry_component_offsets[1][2] = 40

\* C8: every output is allocated with shape [sum of the entry's extents over the
\* ranks] + slice shape, extents read at tensor_sizes[e * G + r]; the scenario
\* with extents {2, 0, 5} and slice [4] gives the stated counts and shape.
C8_OutputShape ==
  /\ \A k \in 1 .. Len(allocLog) :
       LET i == allocLog[k].entry
       IN /\ i = k - 1
          /\ allocLog[k].shape =
               << SumOver([r \in Ranks |-> response.tensor_sizes[i * global_state.size + r]]) >>
               \o Tail(entries[i].tensor.shape)
          /\ ok(allocLog[k].result) =>
               /\ entries[i].output.allocated
               /\ entries[i].output.shape = allocLog[k].shape
  /\ ( /\ op = "ALLGATHER" /\ pc = "returned" /\ ok(status)
       /\ NumEntries = 1 /\ global_state.size = 3
       /\ response.tensor_sizes = (0 :> 2 @@ 1 :> 0 @@ 2 :> 5)
       /\ Tail(entries[0].tensor.shape) = <<4>> )
     => /\ calls[1].recvcounts = (0 :> 8 @@ 1 :> 0 @@ 2 :> 20)
        /\ calls[1].displcmnts = (0 :> 0 @@ 1 :> 8 @@ 2 :> 8)
        /\ entries[0].output.shape = <<7, 4>>

C8_Witness ==
  /\ op = "ALLGATHER" /\ pc = "returned" /\ ok(status)
  /\ NumEntries = 1 /\ global_state.size = 3
  /\ response.tensor_sizes = (0 :> 2 @@ 1 :> 0 @@ 2 :> 5)
  /\ Tail(entries[0].tensor.shape) = <<4>>
  /\ entries[0].output.shape = <<7, 4>>

\* ------------------------------------------------------------ Allreduce
\* the bytes of entry i's input, and the bytes memory holds before it is written
InputBytes(i, n) == [k \in Range0(n) |-> << i, k >>]
StaleBytes(n) == [k \in Range0(n) |-> << -1, k >>]

MaxOf(S) == CHOOSE x \in S : \A y \in S : y <= x
\* the fusion buffer holds any batch routed through it
FusionCapacity ==
  MaxFusedEntries * MaxOf(ElementCounts) * MaxOf({ GetElementSize(d) : d \in DTypes })

ReduceInit ==
  /\ op = "ALLREDUCE" /\ pc = "start"
  /\ \E G \in 1 .. MaxSize : global_state = [rank |-> 0, size |-> G]
  /\ response = [tensor_sizes |-> <<>>, error_message |-> ""]
  /\ \E E \in 1 .. MaxFusedEntries :
       \E counts \in [Range0(E) -> ElementCounts], dtype \in DTypes :
         entries = [i \in Range0(E) |->
           LET t == [shape |-> << counts[i] >>, dtype |-> dtype, data |-> <<>>]
           IN [ tensor |-> [t EXCEPT !.data = InputBytes(i, TensorSize(t))],
                output |-> [allocated |-> TRUE, shape |-> t.shape,
                            data |-> StaleBytes(TensorSize(t))],
                root_rank |-> 0 ]]
  /\ timeline = <<>> /\ allocLog = <<>> /\ calls = <<>> /\ ec = 0
  /\ recvcounts = <<>> /\ displcmnts = <<>>
  /\ entry_component_sizes = <<>> /\ entry_component_offsets = <<>>
  /\ fusion_buffer = [k \in Range0(FusionCapacity) |-> << -2, k >>]
  /\ buffer_len = 0 /\ num_elements = 0
  /\ copiesIn = <<>> /\ copiesOut = <<>>
  /\ procs = <<>> /\ sent = <<>>
  /\ status = NoStatus

\* lines 27-33
RECURSIVE NumElements(_, _)
NumElements(es, n) ==
  IF n = 0 THEN 0
  ELSE NumElements(es, n - 1) + num_elements_of(es[n - 1].tensor.shape)

\* lines 65-69: memcpy(buffer_data_at_offset, e.tensor->data(), e.tensor->size())
MemcpyEntryInFusionBuffer(buf, offset, e) ==
  [k \in DOMAIN buf |->
     IF offset <= k /\ k < offset + TensorSize(e.tensor)
     THEN e.tensor.data[k - offset] ELSE buf[k]]

\* lines 71-75: memcpy(e.output->data(), buffer_data_at_offset, e.tensor->size())
MemcpyEntryOutFusionBuffer(buf, offset, e) ==
  [e EXCEPT !.output.data =
     [k \in DOMAIN e.output.data |->
        IF k < TensorSize(e.tensor) THEN buf[offset + k] ELSE e.output.data[k]]]

\* fault: the offset advances by elements instead of bytes
MemcpyInAdvance_Elements(offset, e) == offset + num_elements_of(e.tensor.shape)

\* line 47
MemcpyInAdvance(offset, e) == offset + TensorSize(e.tensor)

\* line 61
MemcpyOutAdvance(offset, e) == offset + TensorSize(e.tensor)

\* lines 43-48: the state after the first n iterations of the loop
RECURSIVE MemcpyInLoop(_, _, _)
MemcpyInLoop(es, buf, n) ==
  IF n = 0 THEN [buffer |-> buf, offset |-> 0, log |-> <<>>]
  ELSE LET prev == MemcpyInLoop(es, buf, n - 1)
           e == es[n - 1]
       IN [ buffer |-> MemcpyEntryInFusionBuffer(prev.buffer, prev.offset, e),
            offset |-> MemcpyInAdvance(prev.offset, e),
            log |-> Append(prev.log, [entry |-> n - 1, offset |-> prev.offset,
                                      len |-> TensorSize(e.tensor)]) ]

\* lines 57-62: the state after the first n iterations of the loop
RECURSIVE MemcpyOutLoop(_, _, _)
MemcpyOutLoop(es, buf, n) ==
  IF n = 0 THEN [entries |-> es, offset |-> 0, log |-> <<>>]
  ELSE LET prev == MemcpyOutLoop(es, buf, n - 1)
           e == prev.entries[n - 1]
       IN [ entries |-> [prev.entries EXCEPT
                           ![n - 1] = MemcpyEntryOutFusionBuffer(buf, prev.offset, e)],
            offset |-> MemcpyOutAdvance(prev.offset, e),
            log |-> Append(prev.log, [entry |-> n - 1, offset |-> prev.offset,
                                      len |-> TensorSize(e.tensor)]) ]

\* lines 27-33, called on the batch before it is staged
ReduceNumElements ==
  /\ op = "ALLREDUCE" /\ pc = "start"
  /\ num_elements' = NumElements(entries, Cardinality(DOMAIN entries))
  /\ pc' = "counted"
  /\ UNCHANGED << op, global_state, entries, response, status, timeline, allocLog,
                  calls, ec, recvcounts, displcmnts, entry_component_sizes,
                  entry_component_offsets, fusion_buffer, buffer_len,
                  copiesIn, copiesOut, procs, sent >>

\* lines 35-54
MemcpyInFusionBuffer ==
  /\ op = "ALLREDUCE" /\ pc = "counted"
  /\ LET r == MemcpyInLoop(entries, fusion_buffer, Cardinality(DOMAIN entries))
     IN /\ fusion_buffer' = r.buffer
        /\ buffer_len' = r.offset
        /\ copiesIn' = copiesIn \o r.log
  /\ pc' = "staged"
  /\ UNCHANGED << op, global_state, entries, response, status, timeline, allocLog,
                  calls, ec, recvcounts, displcmnts, entry_component_sizes,
                  entry_component_offsets, num_elements, copiesOut, procs, sent >>

\* lines 56-63
MemcpyOutFusionBuffer ==
  /\ op = "ALLREDUCE" /\ pc = "staged"
  /\ LET r == MemcpyOutLoop(entries, fusion_buffer, Cardinality(DOMAIN entries))
     IN /\ entries' = r.entries
        /\ copiesOut' = copiesOut \o r.log
  /\ pc' = "unstaged"
  /\ UNCHANGED << op, global_state, response, status, timeline, allocLog, calls, ec,
                  recvcounts, displcmnts, entry_component_sizes,
                  entry_component_offsets, fusion_buffer, buffer_len, num_elements,
                  copiesIn, procs, sent >>

ReduceNext == ReduceNumElements \/ MemcpyInFusionBuffer \/ MemcpyOutFusionBuffer

SpecReduce == ReduceInit /\ [][ReduceNext]_vars

\* ------------------------------------------------ Allreduce: properties
\* bytes of entry i, from its element count and its dtype
EntryBytes(i) ==
  entries[i].tensor.shape[1] * (IF entries[i].tensor.dtype = "HOROVOD_FLOAT32" THEN 4 ELSE 1)
BytesBefore(i) == SumOver([j \in Range0(i) |-> EntryBytes(j)])
LogLens(log) == SumOver([k \in 1 .. Len(log) |-> log[k].len])

\* C9: entry i is staged at the sum of the byte sizes of the entries before it,
\* the staged length is the sum of all byte sizes, and copy-out reads entry i
\* from the same offset with the same length.
C9_TightPacking ==
  LET N == NumEntries
      total == BytesBefore(N)
  IN /\ (op = "ALLREDUCE" /\ pc \in {"staged", "unstaged"}) =>
          /\ Len(copiesIn) = N
          /\ \A i \in Range0(N) :
               /\ copiesIn[i + 1] =
                    [entry |-> i, offset |-> BytesBefore(i), len |-> EntryBytes(i)]
               /\ \A k \in Range0(EntryBytes(i)) :
                    fusion_buffer[BytesBefore(i) + k] = << i, k >>
          /\ buffer_len = total
          /\ LogLens(copiesIn) = total
          /\ \A k \in DOMAIN fusion_buffer : k >= total => fusion_buffer[k] = << -2, k >>
     /\ (op = "ALLREDUCE" /\ pc = "unstaged") =>
          /\ copiesOut = copiesIn
          /\ LogLens(copiesOut) = total
          /\ \A i \in Range0(N) : entries[i].output.data = entries[i].tensor.data
     /\ ( /\ op = "ALLREDUCE" /\ pc \in {"staged", "unstaged"} /\ N = 3
          /\ entries[0].tensor.shape = <<10>> /\ entries[1].tensor.shape = <<20>>
          /\ entries[2].tensor.shape = <<5>>
          /\ entries[0].tensor.dtype = "HOROVOD_FLOAT32" )
        => /\ copiesIn[1].offset = 0 /\ copiesIn[2].offset = 40
           /\ copiesIn[3].offset = 120
           /\ buffer_len = 140

C9_Witness ==
  /\ op = "ALLREDUCE" /\ pc = "unstaged" /\ NumEntries = 3
  /\ entries[0].tensor.shape = <<10>> /\ entries[1].tensor.shape = <<20>>
  /\ entries[2].tensor.shape = <<5>>
  /\ entries[0].tensor.dtype = "HOROVOD_FLOAT32"
  /\ copiesOut[3] = [entry |-> 2, offset |-> 120, len |-> 20]
  /\ buffer_len = 140

\* ------------------------------------------------------------ Broadcast
BroadcastInit ==
  /\ op = "BROADCAST" /\ pc = "group"
  /\ \E G \in 1 .. MaxSize, n \in 0 .. MaxCount, dtype \in DTypes :
       /\ global_state = [rank |-> 0, size |-> G]
       /\ \E root \in Range0(G) :
            procs = [r \in Range0(G) |->
              [ pc |-> "start",
                e |-> [ tensor |-> [shape |-> << n >>, dtype |-> dtype,
                                    data |-> InputBytes(r, n)],
                        output |-> [allocated |-> TRUE, shape |-> << n >>,
                                    data |-> StaleBytes(n)],
                        root_rank |-> root ],
                data_ptr |-> "null",
                calls |-> <<>>,
                result |-> NoStatus,
                status |-> NoStatus ]]
  /\ entries = <<>>
  /\ response = [tensor_sizes |-> <<>>, error_message |-> ""]
  /\ timeline = <<>> /\ allocLog = <<>> /\ calls = <<>> /\ ec = 0
  /\ recvcounts = <<>> /\ displcmnts = <<>>
  /\ entry_component_sizes = <<>> /\ entry_component_offsets = <<>>
  /\ fusion_buffer = <<>> /\ buffer_len = 0 /\ num_elements = 0
  /\ copiesIn = <<>> /\ copiesOut = <<>>
  /\ sent = <<>>
  /\ status = NoStatus

\* fault: the root hands over its output buffer too
DataPtr_Output(rank, e) == "output"

\* lines 176-181: which of the entry's buffers is handed to the transport
DataPtr(rank, e) == IF rank = e.root_rank THEN "tensor" ELSE "output"

\* lines 171-183: rank r runs Execute up to its entry into DoBroadcast
BroadcastCall(r) ==
  /\ op = "BROADCAST" /\ procs[r].pc = "start"
  /\ LET e == procs[r].e
         ptr == DataPtr(r, e)
     IN /\ procs' = [procs EXCEPT
              ![r].pc = "in_transport",
              ![r].data_ptr = ptr,
              ![r].calls = Append(@, [ primitive |-> "DoBroadcast",
                                       data_ptr |-> ptr,
                                       count |-> num_elements_of(e.tensor.shape),
                                       dtype |-> e.tensor.dtype,
                                       root_rank |-> e.root_rank ])]
        /\ sent' = IF r = e.root_rank THEN e.tensor.data ELSE sent
  /\ UNCHANGED << op, pc, global_state, entries, response, status, timeline,
                  allocLog, calls, ec, recvcounts, displcmnts, entry_component_sizes,
                  entry_component_offsets, fusion_buffer, buffer_len, num_elements,
                  copiesIn, copiesOut >>

\* the buffer a rank handed to the transport
Pointee(p) == IF p.data_ptr = "tensor" THEN p.e.tensor.data ELSE p.e.output.data

\* The transport primitive: once every rank is in the call it either delivers
\* the root's buffer into the buffer of every other rank, or reports a failure.
DoBroadcastComplete ==
  /\ op = "BROADCAST"
  /\ \A r \in DOMAIN procs : procs[r].pc = "in_transport"
  /\ \E res \in {StatusOK} \cup { [type |-> "UNKNOWN_ERROR", reason |-> m] : m \in TransportFailures } :
       procs' = [r \in DOMAIN procs |->
         LET p == procs[r]
             root == p.e.root_rank
             received == ok(res) /\ r # root
         IN [p EXCEPT
               !.pc = "transport_done",
               !.result = res,
               !.e.tensor.data = IF received /\ p.data_ptr = "tensor"
                                 THEN Pointee(procs[root]) ELSE @,
               !.e.output.data = IF received /\ p.data_ptr = "output"
                                 THEN Pointee(procs[root]) ELSE @]]
  /\ UNCHANGED << op, pc, global_state, entries, response, status, timeline,
                  allocLog, calls, ec, recvcounts, displcmnts, entry_component_sizes,
                  entry_component_offsets, fusion_buffer, buffer_len, num_elements,
                  copiesIn, copiesOut, sent >>

\* lines 183-185: DoBroadcast is called as a statement, then Status::OK()
BroadcastReturn(r) ==
  /\ op = "BROADCAST" /\ procs[r].pc = "transport_done"
  /\ procs' = [procs EXCEPT ![r].pc = "returned", ![r].status = StatusOK]
  /\ UNCHANGED << op, pc, global_state, entries, response, status, timeline,
                  allocLog, calls, ec, recvcounts, displcmnts, entry_component_sizes,
                  entry_component_offsets, fusion_buffer, buffer_len, num_elements,
                  copiesIn, copiesOut, sent >>

\* lines 188-192
BroadcastEnabled == TRUE

BroadcastNext ==
  \/ \E r \in DOMAIN procs : BroadcastCall(r)
  \/ DoBroadcastComplete
  \/ \E r \in DOMAIN procs : BroadcastReturn(r)

SpecBroadcast == BroadcastInit /\ [][BroadcastNext]_vars

\* ------------------------------------------------ Broadcast: properties
\* C3 (as claimed): a rank whose transport call reported a failure returns a
\* failure with the transport's message, and returns success only if the
\* transport succeeded.
C3_TransportFailureSurfaces ==
  op = "BROADCAST" =>
    \A r \in DOMAIN procs :
      procs[r].pc = "returned" =>
        /\ ~ok(procs[r].result) =>
             (~ok(procs[r].status) /\ procs[r].status.reason = procs[r].result.reason)
        /\ ok(procs[r].status) => ok(procs[r].result)

\* C4: the root hands its input to the transport and every other rank its
\* output, each rank makes exactly one call with the input's element count and
\* the root, and after a broadcast that succeeded every non-root output equals
\* the root's input as it was when the root made the call.
C4_BroadcastRoundTrip ==
  op = "BROADCAST" =>
    /\ \A r \in DOMAIN procs :
         LET p == procs[r]
         IN /\ p.pc = "start" => p.calls = <<>>
            /\ p.pc # "start" =>
                 /\ Len(p.calls) = 1
                 /\ p.calls[1].primitive = "DoBroadcast"
                 /\ p.calls[1].data_ptr = IF r = p.e.root_rank THEN "tensor" ELSE "output"
                 /\ p.calls[1].count = p.e.tensor.shape[1]
                 /\ p.calls[1].root_rank = p.e.root_rank
                 /\ p.calls[1].dtype = p.e.tensor.dtype
    /\ (\A r \in DOMAIN procs : procs[r].pc = "returned" /\ ok(procs[r].result)) =>
         \A r \in DOMAIN procs :
           LET root == procs[r].e.root_rank
           IN /\ sent = InputBytes(root, procs[root].e.tensor.shape[1])
              /\ procs[root].e.tensor.data = sent
              /\ r # root => procs[r].e.output.data = sent

C4_Witness ==
  /\ op = "BROADCAST"
  /\ Cardinality(DOMAIN procs) = 3
  /\ \A r \in DOMAIN procs :
       /\ procs[r].pc = "returned" /\ ok(procs[r].result)
       /\ procs[r].e.root_rank = 1
       /\ procs[r].e.tensor.shape = <<2>>
  /\ procs[0].e.output.data = (0 :> <<1, 0>> @@ 1 :> <<1, 1>>)
  /\ procs[2].e.output.data = procs[0].e.output.data

\* ---------------------------------------------------------------- Error
ErrorInit ==
  /\ op = "ERROR" /\ pc = "start"
  /\ \E G \in 1 .. MaxSize : \E rank \in Range0(G) :
       global_state = [rank |-> rank, size |-> G]
  /\ \E m \in ErrorMessages : response = [tensor_sizes |-> <<>>, error_message |-> m]
  /\ \E x \in ExtentValues, slice \in SliceShapes, dtype \in DTypes :
       entries = [i \in Range0(1) |->
         [ tensor |-> [shape |-> << x >> \o slice, dtype |-> dtype, data |-> <<>>],
           output |-> NoOutput,
           root_rank |-> 0 ]]
  /\ Idle

\* fault: the message is returned under another failure type
ErrorStatus_Unknown(resp) == [type |-> "UNKNOWN_ERROR", reason |-> resp.error_message]

\* line 199
ErrorStatus(resp) == PreconditionError(resp.error_message)

\* lines 196-200
ErrorExecute ==
  /\ op = "ERROR" /\ pc = "start"
  /\ Cardinality(DOMAIN entries) = 1
  /\ status' = ErrorStatus(response)
  /\ pc' = "returned"
  /\ UNCHANGED << op, global_state, entries, response, timeline, allocLog, calls, ec,
                  recvcounts, displcmnts, entry_component_sizes,
                  entry_component_offsets, fusion_buffer, buffer_len, num_elements,
                  copiesIn, copiesOut, procs, sent >>

SpecError == ErrorInit /\ [][ErrorExecute]_vars

\* C2: Error execute returns a precondition failure with the response's message
\* and makes no fusion-buffer copy, no output allocation and no transport call.
C2_ErrorPropagates ==
  (op = "ERROR" /\ pc = "returned") =>
    /\ status.type = "PRECONDITION_ERROR"
    /\ status.reason = response.error_message
    /\ copiesIn = <<>> /\ copiesOut = <<>>
    /\ allocLog = <<>>
    /\ calls = <<>>
    /\ fusion_buffer = <<>>
    /\ \A i \in DOMAIN entries : entries[i].output = NoOutput

C2_Witness ==
  /\ op = "ERROR" /\ pc = "returned"
  /\ response.error_message = "Mismatched data types"
  /\ status = [type |-> "PRECONDITION_ERROR", reason |-> "Mismatched data types"]

\* ------------------------------------------------------------ the engine
Init == GatherInit \/ ReduceInit \/ BroadcastInit \/ ErrorInit
Next == GatherNext \/ ReduceNext \/ BroadcastNext \/ ErrorExecute
Spec == Init /\ [][Next]_vars

====
